---- MODULE Spec2Model ----
(***************************************************************************)
(* Model of gui/visualization.py: a Streamlit script that loads a Keras    *)
(* classifier, takes a spoken word (uploaded WAV file or browser           *)
(* recording), extracts MFCCs, predicts, and shows the word and a chart of *)
(* the most confident labels.                                              *)
(*                                                                         *)
(* Streamlit executes the script top to bottom once per user interaction.  *)
(* The widget values (uploaded_file, recorded_file) persist between        *)
(* executions; every other name of the script is rebound by each           *)
(* execution.  pc is the position of the current execution.                *)
(*                                                                         *)
(* Scaling.  The source sets SAMPLES_TO_CONSIDER = 22050 (line 13), s = 10 *)
(* (line 131) and a mapping of 35 labels (lines 18-54).  Enumerating       *)
(* signals and confidence vectors of that size is out of reach, so the     *)
(* model keeps the code's comparisons and index arithmetic and runs them   *)
(* with a short window, a short label list (a prefix of the source's) and  *)
(* a small s.  Floating-point samples and confidences are integers: only   *)
(* their order and their being zero or not matter to the code modelled.    *)
(*                                                                         *)
(* None is the empty sequence and a present value x is <<x>>.  Indices     *)
(* are 0-based as in numpy; At converts to TLA+'s 1-based sequences.       *)
(***************************************************************************)
EXTENDS Integers, Sequences, FiniteSets, TLC

VARIABLES
    uploaded_file,      \* st.file_uploader value: None or <<bytes>>
    recorded_file,      \* st_audiorec value: None or <<arr>>, arr the dict's items in insertion order
    artifact,           \* the network stored at MODEL_PATH
    model,              \* module-level model of the current execution: None or <<artifact>>
    loads,              \* load_model calls made by the process so far
    pc,                 \* position of the current script execution
    branch,             \* branch the output block took in this execution
    wav_bytes,          \* recording branch: None or <<bytes>>
    file,               \* argument of create_visualization: None or <<bytes>>
    runs,               \* arguments of the CNN_predict calls of this execution
    signal,             \* preprocess: None or <<signal>>
    predicted_keyword,  \* CNN_predict result: None or <<label>>
    confidences,        \* CNN_predict result: None or <<vector>>
    text,               \* st.markdown of line 129: None or <<label>>
    data,               \* DataFrame rows of line 135: None or <<rows>>
    chart,              \* st.write(chart) of line 140: None or <<chart>>
    error               \* exception that left the script, "None" if none

vars == <<uploaded_file, recorded_file, artifact, model, loads, pc, branch,
          wav_bytes, file, runs, signal, predicted_keyword, confidences,
          text, data, chart, error>>

-----------------------------------------------------------------------------
(* Bounds of the model *)

SAMPLES_TO_CONSIDER == 3
MaxExtra == 2
NumLabels == 4
s == 2
MaxConf == 2
MaxEntries == 3
MaxByte == 1
MaxSessEntries == 1
MaxUploadLen == 1
MaxExecutions == 3

(* Program constants *)

hop_length == 512
num_mfcc == 13

-----------------------------------------------------------------------------
(* Values *)

None == <<>>
Some(x) == <<x>>

At(seq, i) == seq[i + 1]
Range(seq) == {seq[i] : i \in 1..Len(seq)}
SeqsUpTo(S, n) == UNION {[1..k -> S] : k \in 0..n}

FullMapping ==
    <<"right", "eight", "cat", "tree", "backward", "learn", "bed", "happy",
      "go", "dog", "no", "wow", "follow", "nine", "left", "stop", "three",
      "sheila", "one", "bird", "zero", "seven", "up", "visual", "marvin",
      "two", "house", "down", "six", "yes", "on", "five", "forward", "off",
      "four">>

mapping == SubSeq(FullMapping, 1, NumLabels)

Bytes == 0..MaxByte
Buffers(n) == SeqsUpTo(Bytes, n)
ConfVectors(n) == [1..n -> 0..MaxConf]

\* The answers the network gives in the session: for each output dimension a
\* ramp over the confidence levels and its rotations (with ties as soon as
\* the dimension exceeds the number of levels).
ModelAnswers(n) == {[i \in 1..n |-> (i + r) % (MaxConf + 1)] : r \in 0..MaxConf}

\* The items of a dict of at most n entries: pairs <<index, value>> with
\* pairwise distinct indices 0..n, in insertion order.
SampleMaps(n) ==
    {m \in SeqsUpTo((0..n) \X Bytes, n) :
        \A i, j \in 1..Len(m) : i # j => m[i][1] # m[j][1]}

Raise(e) == [err |-> e, value |-> <<>>]
Return(v) == [err |-> "None", value |-> v]

-----------------------------------------------------------------------------
(* Functions of the script *)

\* librosa.load: a buffer that does not start with the container's tag (the
\* largest byte) is refused; the remaining bytes are unsigned 8-bit samples,
\* centred on the middle of the byte range.
Decode(bytes) ==
    IF Len(bytes) = 0 \/ bytes[1] # MaxByte
    THEN Raise("DecodeError(librosa.load)")
    ELSE Return([i \in 1..(Len(bytes) - 1) |->
                    bytes[i + 1] - ((MaxByte + 1) \div 2)])

PadLeft(sig) ==
    IF Len(sig) >= SAMPLES_TO_CONSIDER
    THEN SubSeq(sig, 1, SAMPLES_TO_CONSIDER)
    ELSE [i \in 1..(SAMPLES_TO_CONSIDER - Len(sig)) |-> 0] \o sig

\* preprocess, lines 76-80
ForceLength(sig) ==
    IF Len(sig) >= SAMPLES_TO_CONSIDER
    THEN SubSeq(sig, 1, SAMPLES_TO_CONSIDER)
    ELSE sig \o [i \in 1..(SAMPLES_TO_CONSIDER - Len(sig)) |-> 0]

\* librosa.feature.mfcc(...).T: (1 + len // hop_length, n_mfcc)
MfccShape(sig) == <<1 + (Len(sig) \div hop_length), num_mfcc>>

\* np.argmax: the first index of the maximum
ArgMax(v) ==
    (CHOOSE i \in 1..Len(v) :
        /\ \A j \in 1..Len(v) : v[j] <= v[i]
        /\ \A j \in 1..(i - 1) : v[j] < v[i]) - 1

IsInjective(q) == \A i, j \in 1..Len(q) : i # j => q[i] # q[j]

ArgPartitionHead(a, k) ==
    {q \in [1..k -> 0..(Len(a) - 1)] :
        /\ IsInjective(q)
        /\ \A i \in (0..(Len(a) - 1)) \ Range(q) : At(a, i) >= At(a, q[k])
        /\ \A j \in 1..k : At(a, q[j]) <= At(a, q[k])}

\* np.argpartition(a, -k)[-k:]: the element at position len(a)-k is the one a
\* sort would put there, nothing before it is larger and nothing after it is
\* smaller; the order on either side is not defined.
ArgPartitionTail(a, k) ==
    {q \in [1..k -> 0..(Len(a) - 1)] :
        /\ IsInjective(q)
        /\ \A i \in (0..(Len(a) - 1)) \ Range(q) : At(a, i) <= At(a, q[1])
        /\ \A j \in 1..k : At(a, q[j]) >= At(a, q[1])}

ReconstructLenient(arr) ==
    LET n == Len(arr)
        ind == [k \in 1..n |-> arr[k][1]]
        val == [k \in 1..n |-> arr[k][2]]
    IN  Return([k \in 1..n |-> IF ind[k] < n THEN At(val, ind[k]) ELSE 0])

\* recording branch, lines 148-153
Reconstruct(arr) ==
    LET n == Len(arr)
        ind == [k \in 1..n |-> arr[k][1]]
        val == [k \in 1..n |-> arr[k][2]]
    IN  IF n = 0
        THEN Raise("ValueError(unpack)")
        ELSE IF \E k \in 1..n : ind[k] >= n
             THEN Raise("IndexError(val[ind])")
             ELSE Return([k \in 1..n |-> At(val, ind[k])])

BranchRecordingFirst(up, rec) ==
    IF rec # None THEN "recording"
    ELSE IF up # None THEN "upload"
    ELSE "none"

\* output block, lines 144-146
Branch(up, rec) ==
    IF up # None THEN "upload"
    ELSE IF rec # None THEN "recording"
    ELSE "none"

-----------------------------------------------------------------------------
(* The script *)

Artifacts ==
    [in_shape : {MfccShape(ForceLength(<<>>)),
                 <<2 + (SAMPLES_TO_CONSIDER \div hop_length), num_mfcc>>},
     out_dim  : {s - 1, NumLabels, NumLabels + 1}]

Fresh ==
    /\ model = None
    /\ branch = "none"
    /\ wav_bytes = None
    /\ file = None
    /\ runs = <<>>
    /\ signal = None
    /\ predicted_keyword = None
    /\ confidences = None
    /\ text = None
    /\ data = None
    /\ chart = None
    /\ error = "None"

\* a new execution starts: the script's names are unbound, nothing is shown
Rerun ==
    /\ pc' = "load_model"
    /\ model' = None
    /\ branch' = "none"
    /\ wav_bytes' = None
    /\ file' = None
    /\ runs' = <<>>
    /\ signal' = None
    /\ predicted_keyword' = None
    /\ confidences' = None
    /\ text' = None
    /\ data' = None
    /\ chart' = None
    /\ error' = "None"
    /\ UNCHANGED <<artifact, loads>>

\* the exception leaves the script: nothing in the script catches it
Abort(e) ==
    /\ pc' = "aborted"
    /\ error' = e

Init ==
    /\ uploaded_file = None
    /\ recorded_file = None
    /\ artifact \in Artifacts
    /\ loads = 0
    /\ pc = "load_model"
    /\ Fresh

\* the user picks a file in the uploader of line 118
Upload ==
    /\ pc = "idle"
    /\ loads < MaxExecutions
    /\ \E b \in Buffers(MaxUploadLen) : uploaded_file' = Some(b)
    /\ UNCHANGED recorded_file
    /\ Rerun

\* the user removes the file from the uploader
ClearUpload ==
    /\ pc = "idle"
    /\ loads < MaxExecutions
    /\ uploaded_file # None
    /\ uploaded_file' = None
    /\ UNCHANGED recorded_file
    /\ Rerun

\* the recorder of line 124 delivers a recording
Record ==
    /\ pc = "idle"
    /\ loads < MaxExecutions
    /\ \E m \in SampleMaps(MaxSessEntries) : recorded_file' = Some(m)
    /\ UNCHANGED uploaded_file
    /\ Rerun

\* line 109 (load_model, lines 58-60)
LoadModel ==
    /\ pc = "load_model"
    /\ model' = Some(artifact)
    /\ loads' = loads + 1
    /\ pc' = "output"
    /\ UNCHANGED <<uploaded_file, recorded_file, artifact, branch, wav_bytes,
                   file, runs, signal, predicted_keyword, confidences, text,
                   data, chart, error>>

\* lines 144-145
UploadBranch ==
    /\ pc = "output"
    /\ Branch(uploaded_file, recorded_file) = "upload"
    /\ branch' = "upload"
    /\ file' = Some(uploaded_file[1])
    /\ pc' = "create_visualization"
    /\ UNCHANGED <<uploaded_file, recorded_file, artifact, model, loads,
                   wav_bytes, runs, signal, predicted_keyword, confidences,
                   text, data, chart, error>>

\* lines 146-154
RecordingBranch ==
    /\ pc = "output"
    /\ Branch(uploaded_file, recorded_file) = "recording"
    /\ branch' = "recording"
    /\ LET r == Reconstruct(recorded_file[1])
       IN  IF r.err # "None"
           THEN /\ Abort(r.err)
                /\ UNCHANGED <<wav_bytes, file>>
           ELSE /\ wav_bytes' = Some(r.value)
                /\ file' = Some(r.value)
                /\ pc' = "create_visualization"
                /\ UNCHANGED error
    /\ UNCHANGED <<uploaded_file, recorded_file, artifact, model, loads, runs,
                   signal, predicted_keyword, confidences, text, data, chart>>

\* neither condition of lines 144 and 146 holds
NoInput ==
    /\ pc = "output"
    /\ Branch(uploaded_file, recorded_file) = "none"
    /\ pc' = "done"
    /\ UNCHANGED <<uploaded_file, recorded_file, artifact, model, loads,
                   branch, wav_bytes, file, runs, signal, predicted_keyword,
                   confidences, text, data, chart, error>>

\* lines 128, 97, 74: create_visualization calls CNN_predict, which calls
\* preprocess, which decodes the buffer
LoadAudio ==
    /\ pc = "create_visualization"
    /\ runs' = Append(runs, file[1])
    /\ LET r == Decode(file[1])
       IN  IF r.err # "None"
           THEN /\ Abort(r.err)
                /\ UNCHANGED signal
           ELSE /\ signal' = Some(r.value)
                /\ pc' = "force_length"
                /\ UNCHANGED error
    /\ UNCHANGED <<uploaded_file, recorded_file, artifact, model, loads,
                   branch, wav_bytes, file, predicted_keyword, confidences,
                   text, data, chart>>

\* lines 76-80
ForceLengthStep ==
    /\ pc = "force_length"
    /\ signal' = Some(ForceLength(signal[1]))
    /\ pc' = "predict"
    /\ UNCHANGED <<uploaded_file, recorded_file, artifact, model, loads,
                   branch, wav_bytes, file, runs, predicted_keyword,
                   confidences, text, data, chart, error>>

\* lines 83-106: the network is opaque, its answer is one of ModelAnswers
Predict ==
    /\ pc = "predict"
    /\ IF MfccShape(signal[1]) # model[1].in_shape
       THEN /\ Abort("ValueError(model.predict)")
            /\ UNCHANGED <<predicted_keyword, confidences>>
       ELSE \E predictions \in ModelAnswers(model[1].out_dim) :
                IF ArgMax(predictions) >= Len(mapping)
                THEN /\ Abort("IndexError(mapping)")
                     /\ UNCHANGED <<predicted_keyword, confidences>>
                ELSE /\ predicted_keyword' = Some(At(mapping, ArgMax(predictions)))
                     /\ confidences' = Some(predictions)
                     /\ pc' = "text"
                     /\ UNCHANGED error
    /\ UNCHANGED <<uploaded_file, recorded_file, artifact, model, loads,
                   branch, wav_bytes, file, runs, signal, text, data, chart>>

\* line 129
WriteText ==
    /\ pc = "text"
    /\ text' = predicted_keyword
    /\ pc' = "top_k"
    /\ UNCHANGED <<uploaded_file, recorded_file, artifact, model, loads,
                   branch, wav_bytes, file, runs, signal, predicted_keyword,
                   confidences, data, chart, error>>

\* lines 131-135
TopK ==
    /\ pc = "top_k"
    /\ IF s > Len(confidences[1])
       THEN /\ Abort("ValueError(argpartition)")
            /\ UNCHANGED data
       ELSE \E ind \in ArgPartitionTail(confidences[1], s) :
                IF \E j \in 1..s : ind[j] >= Len(mapping)
                THEN /\ Abort("IndexError(mapping[ind])")
                     /\ UNCHANGED data
                ELSE /\ data' = Some([j \in 1..s |->
                                        [keyword    |-> At(mapping, ind[j]),
                                         confidence |-> At(confidences[1], ind[j])]])
                     /\ pc' = "chart"
                     /\ UNCHANGED error
    /\ UNCHANGED <<uploaded_file, recorded_file, artifact, model, loads,
                   branch, wav_bytes, file, runs, signal, predicted_keyword,
                   confidences, text, chart>>

\* lines 136-140
WriteChart ==
    /\ pc = "chart"
    /\ chart' = Some([data |-> data[1], x |-> "confidence", y |-> "keyword",
                      y_sort |-> "-x"])
    /\ pc' = "done"
    /\ UNCHANGED <<uploaded_file, recorded_file, artifact, model, loads,
                   branch, wav_bytes, file, runs, signal, predicted_keyword,
                   confidences, text, data, error>>

\* the execution is over (by reaching line 154 or by the exception); the
\* page waits for the next interaction
ScriptEnd ==
    /\ pc \in {"done", "aborted"}
    /\ pc' = "idle"
    /\ UNCHANGED <<uploaded_file, recorded_file, artifact, model, loads,
                   branch, wav_bytes, file, runs, signal, predicted_keyword,
                   confidences, text, data, chart, error>>

Next ==
    \/ Upload
    \/ ClearUpload
    \/ Record
    \/ LoadModel
    \/ UploadBranch
    \/ RecordingBranch
    \/ NoInput
    \/ LoadAudio
    \/ ForceLengthStep
    \/ Predict
    \/ WriteText
    \/ TopK
    \/ WriteChart
    \/ ScriptEnd

Spec == Init /\ [][Next]_vars

-----------------------------------------------------------------------------
(* The pieces of the pipeline on their own, each started at its first line  *)
(* with every input of the bounds                                          *)

\* a network whose input and output shapes fit the script
ReferenceArtifact ==
    [in_shape |-> MfccShape(ForceLength(<<>>)), out_dim |-> NumLabels]

\* create_visualization is entered with an uploaded buffer
InitPreprocess ==
    /\ uploaded_file \in {Some(b) : b \in Buffers(SAMPLES_TO_CONSIDER + MaxExtra + 1)}
    /\ recorded_file = None
    /\ artifact = ReferenceArtifact
    /\ model = Some(artifact)
    /\ loads = 1
    /\ pc = "create_visualization"
    /\ branch = "upload"
    /\ wav_bytes = None
    /\ file = uploaded_file
    /\ runs = <<>>
    /\ signal = None
    /\ predicted_keyword = None
    /\ confidences = None
    /\ text = None
    /\ data = None
    /\ chart = None
    /\ error = "None"

NextPreprocess ==
    \/ LoadAudio
    \/ ForceLengthStep

SpecPreprocess == InitPreprocess /\ [][NextPreprocess]_vars

\* the output block is entered with a recording and no upload
InitRecording ==
    /\ uploaded_file = None
    /\ recorded_file \in {Some(m) : m \in SampleMaps(MaxEntries)}
    /\ artifact = ReferenceArtifact
    /\ model = Some(artifact)
    /\ loads = 1
    /\ pc = "output"
    /\ branch = "none"
    /\ wav_bytes = None
    /\ file = None
    /\ runs = <<>>
    /\ signal = None
    /\ predicted_keyword = None
    /\ confidences = None
    /\ text = None
    /\ data = None
    /\ chart = None
    /\ error = "None"

NextRecording ==
    \/ RecordingBranch
    \/ LoadAudio

SpecRecording == InitRecording /\ [][NextRecording]_vars

\* line 131 is reached with the answer of CNN_predict
InitTopK ==
    /\ uploaded_file = Some(<<MaxByte>>)
    /\ recorded_file = None
    /\ artifact = ReferenceArtifact
    /\ model = Some(artifact)
    /\ loads = 1
    /\ pc = "top_k"
    /\ branch = "upload"
    /\ wav_bytes = None
    /\ file = uploaded_file
    /\ runs = <<uploaded_file[1]>>
    /\ signal = Some(ForceLength(<<>>))
    /\ confidences \in {Some(v) : v \in ConfVectors(NumLabels)}
    /\ predicted_keyword = Some(At(mapping, ArgMax(confidences[1])))
    /\ text = predicted_keyword
    /\ data = None
    /\ chart = None
    /\ error = "None"

NextTopK ==
    \/ TopK
    \/ WriteChart

SpecTopK == InitTopK /\ [][NextTopK]_vars

-----------------------------------------------------------------------------
(* Claims *)

Ended == pc \in {"done", "aborted", "idle"}

\* the indices (into mapping) of the rows of data
Selected == {i \in 0..(Len(mapping) - 1) :
                \E j \in 1..Len(data[1]) : data[1][j].keyword = At(mapping, i)}

RowOf(i) == CHOOSE j \in 1..Len(data[1]) : data[1][j].keyword = At(mapping, i)

\* C1: a recording whose indices are exactly 0..n-1 (n >= 1), inserted in any
\* order, is reconstructed with the value of index i at position i.
C1_SortedByIndex ==
    (/\ branch = "recording"
     /\ Len(recorded_file[1]) >= 1
     /\ {recorded_file[1][k][1] : k \in 1..Len(recorded_file[1])}
            = 0..(Len(recorded_file[1]) - 1))
    => /\ wav_bytes # None
       /\ Len(wav_bytes[1]) = Len(recorded_file[1])
       /\ \A k \in 1..Len(recorded_file[1]) :
              At(wav_bytes[1], recorded_file[1][k][1]) = recorded_file[1][k][2]

\* C2: whatever the length n of the decoded signal, the signal handed to the
\* MFCC step has length SAMPLES_TO_CONSIDER, equals the decoded signal on the
\* first min(n, SAMPLES_TO_CONSIDER) positions and is zero from n on.
C2_LengthForcing ==
    pc = "predict" =>
        LET decoded == Decode(file[1]).value
        IN  /\ Len(signal[1]) = SAMPLES_TO_CONSIDER
            /\ \A i \in 1..SAMPLES_TO_CONSIDER :
                   signal[1][i] = IF i <= Len(decoded) THEN decoded[i] ELSE 0

C2_Witness ==
    /\ pc = "predict"
    /\ Len(Decode(file[1]).value) \in 1..(SAMPLES_TO_CONSIDER - 1)
    /\ signal[1][1] # 0
    /\ signal[1][SAMPLES_TO_CONSIDER] = 0

\* the rows of data: s distinct labels, each with its own confidence, none
\* left out that is strictly more confident than one taken
TopKRows ==
    /\ Len(data[1]) = s
    /\ \A j, k \in 1..s : j # k => data[1][j].keyword # data[1][k].keyword
    /\ \A j \in 1..s : \E i \in 0..(Len(mapping) - 1) :
           /\ data[1][j].keyword = At(mapping, i)
           /\ data[1][j].confidence = At(confidences[1], i)
    /\ \A i \in (0..(Len(mapping) - 1)) \ Selected : \A j \in 1..s :
           At(confidences[1], i) <= data[1][j].confidence

\* C3 as claimed: the rows built by create_visualization are the top s and
\* are ordered by confidence, descending.
C3_TopKDescending ==
    data # None =>
        /\ TopKRows
        /\ \A j \in 1..(s - 1) : data[1][j].confidence >= data[1][j + 1].confidence

\* C3 as amended: the rows built by create_visualization are the top s, in an
\* order that is not by confidence (the first row is a least confident one);
\* the descending order is only asked of the renderer, by sort='-x'.
C3_TopKUnordered ==
    /\ data # None =>
           /\ TopKRows
           /\ \A j \in 1..s : data[1][1].confidence <= data[1][j].confidence
    /\ chart # None =>
           /\ chart[1].data = data[1]
           /\ chart[1].y_sort = "-x"

C3_Witness ==
    /\ pc = "done"
    /\ chart # None
    /\ data[1][1].confidence < data[1][s].confidence

\* C4 as claimed: an empty recording fails with EmptyRecordingError, gives no
\* buffer and starts no pipeline run.
C4_EmptyRecordingError ==
    (branch = "recording" /\ recorded_file = Some(<<>>))
    => /\ pc = "aborted"
       /\ error = "EmptyRecordingError"
       /\ wav_bytes = None
       /\ runs = <<>>

\* C4 as amended: an empty recording fails with the ValueError of the tuple
\* unpacking of line 148, gives no buffer and starts no pipeline run.
C4_EmptyRecordingFails ==
    (branch = "recording" /\ recorded_file = Some(<<>>))
    => /\ pc = "aborted"
       /\ error = "ValueError(unpack)"
       /\ wav_bytes = None
       /\ runs = <<>>

C4_Witness ==
    /\ branch = "recording"
    /\ recorded_file = Some(<<>>)
    /\ pc = "aborted"

\* C5: no error of a pipeline run leaves the script: it is caught and shown,
\* and the execution does not end by an unhandled exception.
C5_ErrorsCaught == error = "None" /\ pc # "aborted"

\* C6: an execution that has ended shows the text and the chart or neither,
\* and neither when the run failed.
C6_NoPartialResults ==
    Ended =>
        /\ (text # None) <=> (chart # None)
        /\ error # "None" => (text = None /\ chart = None)

\* C7: load_model is called at most once, whatever the interactions.
C7_LoadedOnce == loads <= 1

\* C8 as claimed: of two equally confident labels i < j, j is taken only if i
\* is, and then i comes first.
C8_StableTieBreak ==
    data # None =>
        \A i, j \in 0..(Len(mapping) - 1) :
            (/\ i < j
             /\ At(confidences[1], i) = At(confidences[1], j)
             /\ j \in Selected)
            => (i \in Selected /\ RowOf(i) < RowOf(j))

\* C8 as amended: equal confidences are not ordered by index; of two equally
\* confident labels i < j, j can be taken without i only at the cut, that is
\* when their confidence is the least of the rows taken.
C8_TieOnlyAtCut ==
    data # None =>
        \A i, j \in 0..(Len(mapping) - 1) :
            (/\ i < j
             /\ At(confidences[1], i) = At(confidences[1], j)
             /\ j \in Selected
             /\ i \notin Selected)
            => \A k \in 1..s : data[1][k].confidence >= At(confidences[1], j)

C8_Witness ==
    /\ data # None
    /\ \E i, j \in 0..(Len(mapping) - 1) :
           /\ i < j
           /\ At(confidences[1], i) = At(confidences[1], j)
           /\ j \in Selected
           /\ i \notin Selected

\* C9: an execution makes at most one pipeline run: on the upload when there
\* is one, whatever was recorded; otherwise on the reconstructed recording
\* when there is one; otherwise none.
C9_Precedence ==
    /\ Len(runs) <= 1
    /\ runs # <<>> =>
           IF uploaded_file # None
           THEN branch = "upload" /\ runs = uploaded_file
           ELSE recorded_file # None /\ branch = "recording" /\ runs = wav_bytes
    /\ Ended =>
           /\ uploaded_file # None => runs = uploaded_file
           /\ (uploaded_file = None /\ recorded_file # None) =>
                  (branch = "recording" /\ runs = wav_bytes)
           /\ (uploaded_file = None /\ recorded_file = None) => runs = <<>>

C9_Witness ==
    /\ pc = "done"
    /\ uploaded_file # None
    /\ recorded_file # None
    /\ Reconstruct(recorded_file[1]).err = "None"
    /\ runs = uploaded_file
    /\ chart # None

\* C10: a recording of n entries with an index >= n fails with the IndexError
\* of line 151 and starts no pipeline run; a reconstruction that succeeds has
\* exactly n bytes.
C10_GapsFail ==
    branch = "recording" =>
        LET arr == recorded_file[1]
        IN  /\ (\E k \in 1..Len(arr) : arr[k][1] >= Len(arr)) =>
                   /\ pc = "aborted"
                   /\ error = "IndexError(val[ind])"
                   /\ wav_bytes = None
                   /\ runs = <<>>
            /\ wav_bytes # None => Len(wav_bytes[1]) = Len(arr)

C10_Witness ==
    /\ branch = "recording"
    /\ Len(recorded_file[1]) >= 2
    /\ \E k \in 1..Len(recorded_file[1]) : recorded_file[1][k][1] >= Len(recorded_file[1])
    /\ pc = "aborted"

====
